---- MODULE Spec2Model ----
(***************************************************************************)
(* tap-monday: the pagination / retry loop of MondayStream.request_records *)
(* (src/tap_monday/client.py) together with the per-stream hooks of        *)
(* BoardsStream (src/tap_monday/streams.py).                               *)
(*                                                                         *)
(* One behaviour is one call of request_records(context) consumed to its   *)
(* end.  The API server is a script of pages fixed in the initial state;   *)
(* the outcome of every single HTTP attempt (status code, read timeout,    *)
(* connection error) is chosen freely at each attempt.                     *)
(***************************************************************************)
EXTENDS Integers, Sequences, FiniteSets, TLC

\* ---------------------------------------------------------------- bounds
MaxPages == 2        \* pages in the server's script
MaxRecs == 2         \* records on one page, and the largest board_limit
MaxTok == 1          \* largest token a generic response may carry
MinStatus == 100     \* smallest HTTP status given to validate_response
MaxStatus == 600     \* largest HTTP status given to validate_response
MaxIdLen == 2        \* characters of an id string of a payload
MaxItems == 1        \* items nested in one board of a payload
MaxBoardRows == 2    \* rows a top-level stream yields in one sync
MaxChildRows == 1    \* rows a child stream yields for one context

\* ------------------------------------------------------ program constants
MaxTries == 20       \* backoff.on_exception(..., max_tries=20)
NoToken == 0         \* next_page_token = None (the empty token)

VARIABLES
    stream,           \* "boards": BoardsStream; "generic": a stream that inherits
                      \* get_next_page_token / validate_response
    board_limit,      \* self.config["board_limit"]
    pages,            \* the server: page i is [n |-> rows, hdr |-> token it carries]
    pc,               \* position of the generator
    next_page_token,  \* local of request_records
    previous_token,   \* local of request_records
    resp,             \* the response held between the request and its processing
    tries,            \* attempts made by the current decorated_request call
    lastStatus,       \* status of the last HTTP response (0: none)
    lastExc,          \* what the last attempt raised ("none": nothing)
    err,              \* the exception that left request_records ("none": nothing)
    emitted,          \* rows yielded so far, each <<page index, position>>
    requests,         \* page asked for by each prepared request, in order
    retried,          \* some attempt of this run was retried by backoff
    costs,            \* self._sync_costs
    sync_pc,          \* position of the sync of the whole tap
    discovered,       \* names of the streams discover_streams returned, in order
    cur,              \* index in discovered of the stream being looked at
    n_rows,           \* rows the top-level stream being synced has yielded
    raw,              \* the row parse_response yielded last (top-level stream)
    rec,              \* that row after post_process
    context,          \* the context handed to the children of the last record
    child_i,          \* index of the child stream being synced
    child_rows,       \* rows the child being synced has yielded
    craw,             \* the row parse_response yielded last (child stream)
    crec,             \* that row after post_process
    child_runs        \* child syncs completed for the last parent record

pagingVars == <<stream, board_limit, pages, pc, next_page_token, previous_token, resp,
                tries, lastStatus, lastExc, err, emitted, requests, retried, costs>>

syncVars == <<sync_pc, discovered, cur, n_rows, raw, rec, context, child_i,
              child_rows, craw, crec, child_runs>>

vars == <<stream, board_limit, pages, pc, next_page_token, previous_token, resp,
          tries, lastStatus, lastExc, err, emitted, requests, retried, costs,
          sync_pc, discovered, cur, n_rows, raw, rec, context, child_i,
          child_rows, craw, crec, child_runs>>

\* No row, no record.
NoRow == [none |-> TRUE]

\* No context: a top-level stream is synced with context None.
NoContext == [none |-> TRUE]

\* The sync of the tap has not started.
SyncIdle ==
    /\ sync_pc = "IDLE"
    /\ discovered = <<>>
    /\ cur = 0
    /\ n_rows = 0
    /\ raw = NoRow
    /\ rec = NoRow
    /\ context = NoContext
    /\ child_i = 0
    /\ child_rows = 0
    /\ craw = NoRow
    /\ crec = NoRow
    /\ child_runs = <<>>

\* ------------------------------------------------------------ the server
Streams == {"boards", "generic"}
Tokens == 0..MaxTok
Page == [n : 0..MaxRecs, hdr : Tokens]
EmptyPage == [n |-> 0, hdr |-> NoToken]
NoResp == [idx |-> 0, n |-> 0, hdr |-> NoToken]

Scripts == UNION {[1..k -> Page] : k \in 1..MaxPages}

\* The response to a request for page p: the scripted page, or an empty
\* page once the script is exhausted.
Respond(p) ==
    LET pg == IF p \in 1..Len(pages) THEN pages[p] ELSE EmptyPage
    IN [idx |-> p, n |-> pg.n, hdr |-> pg.hdr]

\* The HTTP statuses an attempt may answer with.
Statuses == {200, 404, 408, 503}

\* ------------------------------------------------- classification of a response
\* Mutant: the 408 test placed after the 400-499 test, where it is dead.
BoardsValidateResponse_408Dead(status) ==
    IF 400 <= status /\ status < 500 THEN "FatalAPIError"
    ELSE IF status = 408 THEN "RetriableAPIError"
    ELSE IF 500 <= status /\ status < 600 THEN "RetriableAPIError"
    ELSE "none"

\* BoardsStream.validate_response: what it raises for a status ("none": nothing).
BoardsValidateResponse(status) ==
    IF status = 408 THEN "RetriableAPIError"
    ELSE IF 400 <= status /\ status < 500 THEN "FatalAPIError"
    ELSE IF 500 <= status /\ status < 600 THEN "RetriableAPIError"
    ELSE "none"

\* The validate_response a stream inherits when it does not override it.
DefaultValidateResponse(status) ==
    IF 400 <= status /\ status < 500 THEN "FatalAPIError"
    ELSE IF 500 <= status /\ status < 600 THEN "RetriableAPIError"
    ELSE "none"

validate_response(status) ==
    IF stream = "boards" THEN BoardsValidateResponse(status)
    ELSE DefaultValidateResponse(status)

\* What one attempt of self._request raises: the network failure, or what
\* validate_response raises for the status of the response.
NetFailures == {"ReadTimeout", "ConnectionError"}
Raised(net, status) == IF net # "none" THEN net ELSE validate_response(status)

\* ---------------------------------------------------------- request_decorator
\* Mutant: FatalAPIError listed among the exceptions to retry.
Retryable_AlsoFatal(e) == e \in {"RetriableAPIError", "ReadTimeout", "FatalAPIError"}

\* The exceptions backoff.on_exception retries.
Retryable(e) == e \in {"RetriableAPIError", "ReadTimeout"}

\* Mutant: max_tries counted as retries, not as attempts.
max_tries_exceeded_OffByOne(t) == t = MaxTries + 1

\* backoff gives up when the attempt just made was the max_tries-th.
max_tries_exceeded(t) == t = MaxTries

\* Mutant: one attempt counter for the whole run.
TriesAfterCall_Kept(t) == t

\* The attempt counter is a local of each call of the decorated function:
\* the next call starts counting anew.
TriesAfterCall(t) == 0

\* What the decorated call does after an attempt that raised e (the t-th).
backoff_decision(e, t) ==
    IF e = "none" THEN "return"
    ELSE IF Retryable(e) /\ ~max_tries_exceeded(t) THEN "retry"
    ELSE "raise"

\* ------------------------------------------------------------- stream hooks
Truthy(token) == token # NoToken

\* BoardsStream.get_url_params: the "page" variable of the query.
BoardsPageParam(token) == IF Truthy(token) THEN token ELSE 1

\* Mutant: the first page taken as page 0 (previous_token or 0).
BoardsGetNextPageToken_NoneAsZero(response, previous) ==
    IF response.n = board_limit THEN previous + 1 ELSE NoToken

\* Mutant: the increment forgotten.
BoardsGetNextPageToken_NoIncrement(response, previous) ==
    LET current_page == IF previous # NoToken THEN previous ELSE 1
    IN IF response.n = board_limit THEN current_page ELSE NoToken

\* Mutant: a further page whenever the page is not empty.
BoardsGetNextPageToken_NonEmptyTest(response, previous) ==
    LET current_page == IF previous # NoToken THEN previous ELSE 1
    IN IF response.n > 0 THEN current_page + 1 ELSE NoToken

\* BoardsStream.get_next_page_token.
BoardsGetNextPageToken(response, previous) ==
    LET current_page == IF previous # NoToken THEN previous ELSE 1
    IN IF response.n = board_limit THEN current_page + 1 ELSE NoToken

\* The inherited get_next_page_token: the token the response carries.
DefaultGetNextPageToken(response, previous) == response.hdr

get_next_page_token(response, previous) ==
    IF stream = "boards" THEN BoardsGetNextPageToken(response, previous)
    ELSE DefaultGetNextPageToken(response, previous)

\* Mutant: the last row of every page is not yielded.
Rows_DropLast(response) ==
    [i \in 1..(IF response.n = 0 THEN 0 ELSE response.n - 1) |-> <<response.idx, i>>]

\* parse_response: the rows of a response, in payload order.
Rows(response) == [i \in 1..response.n |-> <<response.idx, i>>]

\* calculate_sync_cost.
calculate_sync_cost == [rest |-> 1, graphql |-> 0, search |-> 0]

\* update_sync_costs: add the cost of one call to the accumulator.
update_sync_costs(c) ==
    [rest |-> c.rest + calculate_sync_cost.rest,
     graphql |-> c.graphql + calculate_sync_cost.graphql,
     search |-> c.search + calculate_sync_cost.search]

\* ------------------------------------------------------------ request_records
\* Mutant: the loop guard without its test that the token is not empty.
LoopDetected_NoEmptyTest(next, previous) == next = previous

\* The loop guard of request_records.
LoopDetected(next, previous) == Truthy(next) /\ next = previous

\* Mutant: the loop condition inverted.
Finished_Inverted(next) == Truthy(next)

\* finished = not next_page_token
Finished(next) == ~Truthy(next)

\* The except clause of request_records: the exceptions it catches.
Caught(e) == e = "ConnectionError"

\* Where the generator is after "return self.request_records(context=context)":
\* a return inside a generator ends it; the generator the call creates is the
\* return value and is never iterated.
AfterConnectionError == "RESTART_DROPPED"

\* Mutant: a retry prepares its request anew, for the following page.
RetriedPage_Advanced == requests[Len(requests)] + 1

\* The page a retry asks for: backoff calls self._request again with the
\* prepared request it was given.
RetriedPage == requests[Len(requests)]

\* The page the next prepared request asks for.
RequestedPage ==
    IF stream = "boards" THEN BoardsPageParam(next_page_token)
    ELSE Len(requests) + 1

Init ==
    /\ stream \in Streams
    /\ board_limit \in (IF stream = "boards" THEN 0..MaxRecs ELSE {MaxRecs})
    /\ pages \in Scripts
    /\ stream = "boards" => \A i \in 1..Len(pages) : pages[i].hdr = NoToken
    /\ pc = "AWAITING_NEXT_PAGE"
    /\ next_page_token = NoToken
    /\ previous_token = NoToken
    /\ resp = NoResp
    /\ tries = 0
    /\ lastStatus = 0
    /\ lastExc = "none"
    /\ err = "none"
    /\ emitted = <<>>
    /\ requests = <<>>
    /\ retried = FALSE
    /\ costs = [rest |-> 0, graphql |-> 0, search |-> 0]
    /\ SyncIdle

\* One attempt of the decorated request for page p, the t-th of its call.
Attempt(p, t, net, status) ==
    LET e == Raised(net, status)
        d == backoff_decision(e, t)
    IN /\ tries' = t
       /\ lastStatus' = (IF net = "none" THEN status ELSE 0)
       /\ lastExc' = e
       /\ retried' = (retried \/ d = "retry")
       /\ resp' = (IF d = "return" THEN Respond(p) ELSE NoResp)
       /\ pc' = (IF d = "return" THEN "HAS_PAGE"
                 ELSE IF d = "retry" THEN "BACKOFF"
                 ELSE IF Caught(e) THEN AfterConnectionError
                 ELSE "FATAL")
       /\ err' = (IF d = "raise" /\ ~Caught(e) THEN e ELSE err)
       /\ UNCHANGED <<stream, board_limit, pages, next_page_token, previous_token,
                      emitted, costs>>
       /\ UNCHANGED syncVars

\* prepare_request and the first attempt of decorated_request.
FirstAttempt ==
    /\ pc = "AWAITING_NEXT_PAGE"
    /\ RequestedPage <= MaxPages + 1
    /\ requests' = Append(requests, RequestedPage)
    /\ \E net \in {"none"} \cup NetFailures, status \in Statuses :
          Attempt(RequestedPage, tries + 1, net, status)

\* backoff sends the same prepared request again.
RetryAttempt ==
    /\ pc = "BACKOFF"
    /\ requests' = requests
    /\ \E net \in {"none"} \cup NetFailures, status \in Statuses :
          Attempt(RetriedPage, tries + 1, net, status)

\* The rest of the loop body: account the call, yield the rows, compute the
\* next token, check the loop guard, decide whether to go on.
ProcessPage ==
    /\ pc = "HAS_PAGE"
    /\ costs' = update_sync_costs(costs)
    /\ emitted' = emitted \o Rows(resp)
    /\ previous_token' = next_page_token
    /\ next_page_token' = get_next_page_token(resp, next_page_token)
    /\ IF LoopDetected(next_page_token', previous_token')
       THEN pc' = "FATAL" /\ err' = "RuntimeError"
       ELSE /\ pc' = (IF Finished(next_page_token') THEN "DONE"
                      ELSE "AWAITING_NEXT_PAGE")
            /\ err' = err
    /\ resp' = NoResp
    /\ tries' = TriesAfterCall(tries)
    /\ UNCHANGED <<stream, board_limit, pages, lastStatus, lastExc, requests, retried>>
    /\ UNCHANGED syncVars

Next == FirstAttempt \/ RetryAttempt \/ ProcessPage

Spec == Init /\ [][Next]_vars

\* The generator is consumed to its end and every attempt gets an outcome.
FairSpec == Spec /\ WF_vars(Next)

\* ------------------------------------- every page at the edge of the cap
\* The outcomes of a run in which every page fails MaxTries - 1 times in a
\* row with retryable errors and then succeeds.
FlakyOutcome == IF tries' < MaxTries THEN pc' = "BACKOFF" ELSE pc' = "HAS_PAGE"

FlakyFirstAttempt == FirstAttempt /\ FlakyOutcome

FlakyRetryAttempt == RetryAttempt /\ FlakyOutcome

FlakyNext == FlakyFirstAttempt \/ FlakyRetryAttempt \/ ProcessPage

FlakySpec == Init /\ [][FlakyNext]_vars /\ WF_vars(FlakyNext)

\* ------------------------------------------ validate_response on its own
\* A response with any status in MinStatus..MaxStatus handed to
\* BoardsStream.validate_response.
InitValidate ==
    /\ stream = "boards"
    /\ board_limit = MaxRecs
    /\ pages = <<EmptyPage>>
    /\ pc = "VALIDATING"
    /\ next_page_token = NoToken
    /\ previous_token = NoToken
    /\ resp = NoResp
    /\ tries = 0
    /\ lastStatus \in MinStatus..MaxStatus
    /\ lastExc = "none"
    /\ err = "none"
    /\ emitted = <<>>
    /\ requests = <<>>
    /\ retried = FALSE
    /\ costs = [rest |-> 0, graphql |-> 0, search |-> 0]
    /\ SyncIdle

Validate ==
    /\ pc = "VALIDATING"
    /\ lastExc' = BoardsValidateResponse(lastStatus)
    /\ pc' = "VALIDATED"
    /\ UNCHANGED <<stream, board_limit, pages, next_page_token, previous_token, resp,
                   tries, lastStatus, err, emitted, requests, retried, costs>>
    /\ UNCHANGED syncVars

SpecValidate == InitValidate /\ [][Validate]_vars

\* ------------------------------------------------ the sync of the whole tap
\* One behaviour is one sync of the tap at the level of rows: streams are
\* discovered from STREAM_TYPES, every stream without a parent is synced in
\* catalog order, and for every record of a parent each child stream is synced
\* with the context get_child_context derives from that record.  Every row is
\* what parse_response yields, every record is that row after post_process.

\* The characters an id string of a payload is made of.
Digits == {0, 9}

\* The id strings of a payload: one to MaxIdLen decimal digits.
DigitStrs == UNION {[1..n -> Digits] : n \in 1..MaxIdLen}

\* int(s) of a string of decimal digits.
RECURSIVE PyInt(_)
PyInt(s) ==
    IF Len(s) = 1 THEN s[1]
    ELSE 10 * PyInt(SubSeq(s, 1, Len(s) - 1)) + s[Len(s)]

\* float(s) of a string of decimal digits: the same number.
PyFloat(s) == PyInt(s)

\* The stream classes streams.py defines, by their name.
StreamClasses == {"workspaces", "boards", "board_views", "groups", "columns"}

\* ItemsStream, which tap.py imports from streams.py.
ItemsStream == "items"

\* STREAM_TYPES of tap.py, by stream name.
STREAM_TYPES == <<"workspaces", "boards", "board_views", "groups", ItemsStream>>

\* The parent of the items stream.
ItemsParent == "boards"

\* parent_stream_type of a stream class ("none" where the class sets none).
parent_stream_type(s) ==
    CASE s \in {"board_views", "groups", "columns"} -> "boards"
      [] s = ItemsStream -> ItemsParent
      [] OTHER -> "none"

\* The child streams of a stream: the discovered streams that name it as parent.
child_streams(s) == SelectSeq(discovered, LAMBDA c : parent_stream_type(c) = s)

\* The rows parse_response of a stream can yield.
ItemRaw == [id : DigitStrs, name : {"task"}]

BoardRaw ==
    [id : DigitStrs, name : {"plan", "ops"},
     items : UNION {[1..n -> ItemRaw] : n \in 0..MaxItems}]

RawRows(s) ==
    CASE s = "boards" -> BoardRaw
      [] s = "workspaces" -> [id : Digits, name : {"main"}]
      [] s = "board_views" -> [id : DigitStrs, name : {"table"}]
      [] s = "groups" -> [id : {"topics"}, position : DigitStrs]
      [] s = "columns" -> [id : {"status"}, title : {"Status"}]
      [] OTHER -> [id : DigitStrs]

\* Mutant: the nested items get the id of their board.
BoardsPostProcess_ItemIdFromBoard(row) ==
    [id |-> PyInt(row.id), name |-> row.name,
     items |-> [j \in DOMAIN row.items |-> [row.items[j] EXCEPT !.id = PyInt(row.id)]]]

\* BoardsStream.post_process.
BoardsPostProcess(row) ==
    [row EXCEPT !.id = PyInt(row.id),
                !.items = [j \in DOMAIN row.items |->
                              [row.items[j] EXCEPT !.id = PyInt(row.items[j].id)]]]

\* GroupsStream.post_process.
GroupsPostProcess(row, ctx) ==
    [board_id |-> ctx.board_id] @@ [row EXCEPT !.position = PyFloat(row.position)]

\* ColumnsStream.post_process.
ColumnsPostProcess(row, ctx) == [board_id |-> ctx.board_id] @@ row

\* ItemsStream.post_process.
ItemsPostProcess(row, ctx) == [board_id |-> ctx.board_id] @@ [row EXCEPT !.id = PyInt(row.id)]

\* post_process of a stream; WorkspacesStream and BoardViewsStream define none
\* and inherit the one that returns the row as it is.
post_process(s, row, ctx) ==
    CASE s = "boards" -> BoardsPostProcess(row)
      [] s = "groups" -> GroupsPostProcess(row, ctx)
      [] s = "columns" -> ColumnsPostProcess(row, ctx)
      [] s = ItemsStream -> ItemsPostProcess(row, ctx)
      [] OTHER -> row

\* BoardsStream.get_child_context.
get_child_context(record) == [board_id |-> record.id]

\* No request_records call is in progress.
PagingIdle ==
    /\ stream = "generic"
    /\ board_limit = MaxRecs
    /\ pages = <<>>
    /\ pc = "IDLE"
    /\ next_page_token = NoToken
    /\ previous_token = NoToken
    /\ resp = NoResp
    /\ tries = 0
    /\ lastStatus = 0
    /\ lastExc = "none"
    /\ err = "none"
    /\ emitted = <<>>
    /\ requests = <<>>
    /\ retried = FALSE
    /\ costs = [rest |-> 0, graphql |-> 0, search |-> 0]

InitSync ==
    /\ PagingIdle
    /\ sync_pc = "START"
    /\ discovered = <<>>
    /\ cur = 0
    /\ n_rows = 0
    /\ raw = NoRow
    /\ rec = NoRow
    /\ context = NoContext
    /\ child_i = 0
    /\ child_rows = 0
    /\ craw = NoRow
    /\ crec = NoRow
    /\ child_runs = <<>>

\* The stream the sync is looking at.
CurStream == discovered[cur]

\* The child stream being synced.
CurChild == child_streams(CurStream)[child_i]

\* discover_streams: one stream per entry of STREAM_TYPES, in order.
Discover ==
    /\ sync_pc = "START"
    /\ discovered' = STREAM_TYPES
    /\ cur' = 1
    /\ sync_pc' = "STREAM"
    /\ UNCHANGED <<n_rows, raw, rec, context, child_i, child_rows, craw, crec, child_runs>>
    /\ UNCHANGED pagingVars

\* A stream that has a parent is not synced on its own.
SkipChild ==
    /\ sync_pc = "STREAM"
    /\ cur <= Len(discovered)
    /\ parent_stream_type(CurStream) # "none"
    /\ cur' = cur + 1
    /\ UNCHANGED <<sync_pc, discovered, n_rows, raw, rec, context, child_i, child_rows,
                   craw, crec, child_runs>>
    /\ UNCHANGED pagingVars

\* A stream without a parent yields its next row, which post_process turns
\* into a record.
ParentRecord ==
    /\ sync_pc = "STREAM"
    /\ cur <= Len(discovered)
    /\ parent_stream_type(CurStream) = "none"
    /\ n_rows < MaxBoardRows
    /\ \E row \in RawRows(CurStream) :
          /\ raw' = row
          /\ rec' = post_process(CurStream, row, NoContext)
    /\ n_rows' = n_rows + 1
    /\ context' = NoContext
    /\ child_i' = 0
    /\ child_runs' = <<>>
    /\ sync_pc' = "RECORD"
    /\ UNCHANGED <<discovered, cur, child_rows, craw, crec>>
    /\ UNCHANGED pagingVars

\* The record is handed on; a stream with children starts their syncs with the
\* context of the record.
SyncChildren ==
    /\ sync_pc = "RECORD"
    /\ IF child_streams(CurStream) # <<>>
       THEN /\ context' = get_child_context(rec)
            /\ child_i' = 1
            /\ sync_pc' = "CHILDREN"
       ELSE /\ sync_pc' = "STREAM"
            /\ UNCHANGED <<context, child_i>>
    /\ raw' = NoRow
    /\ rec' = NoRow
    /\ UNCHANGED <<discovered, cur, n_rows, child_rows, craw, crec, child_runs>>
    /\ UNCHANGED pagingVars

\* The child being synced yields its next row, which post_process turns into
\* a record with the context.
ChildRecord ==
    /\ sync_pc = "CHILDREN"
    /\ child_i <= Len(child_streams(CurStream))
    /\ child_rows < MaxChildRows
    /\ \E row \in RawRows(CurChild) :
          /\ craw' = row
          /\ crec' = post_process(CurChild, row, context)
    /\ child_rows' = child_rows + 1
    /\ UNCHANGED <<sync_pc, discovered, cur, n_rows, raw, rec, context, child_i, child_runs>>
    /\ UNCHANGED pagingVars

\* The child being synced has no more rows: its sync for this context is
\* complete and the next child starts.
EndChild ==
    /\ sync_pc = "CHILDREN"
    /\ child_i <= Len(child_streams(CurStream))
    /\ child_runs' = Append(child_runs, <<CurChild, context.board_id>>)
    /\ child_i' = child_i + 1
    /\ child_rows' = 0
    /\ craw' = NoRow
    /\ crec' = NoRow
    /\ UNCHANGED <<sync_pc, discovered, cur, n_rows, raw, rec, context>>
    /\ UNCHANGED pagingVars

\* Every child has been synced for the record: the parent goes on.
EndChildren ==
    /\ sync_pc = "CHILDREN"
    /\ child_i > Len(child_streams(CurStream))
    /\ sync_pc' = "STREAM"
    /\ UNCHANGED <<discovered, cur, n_rows, raw, rec, context, child_i, child_rows,
                   craw, crec, child_runs>>
    /\ UNCHANGED pagingVars

\* The stream has no more rows: the sync goes on to the next stream.
EndStream ==
    /\ sync_pc = "STREAM"
    /\ cur <= Len(discovered)
    /\ parent_stream_type(CurStream) = "none"
    /\ cur' = cur + 1
    /\ n_rows' = 0
    /\ context' = NoContext
    /\ child_i' = 0
    /\ child_runs' = <<>>
    /\ UNCHANGED <<sync_pc, discovered, raw, rec, child_rows, craw, crec>>
    /\ UNCHANGED pagingVars

\* No stream is left.
Finish ==
    /\ sync_pc = "STREAM"
    /\ cur > Len(discovered)
    /\ sync_pc' = "SYNC_DONE"
    /\ UNCHANGED <<discovered, cur, n_rows, raw, rec, context, child_i, child_rows,
                   craw, crec, child_runs>>
    /\ UNCHANGED pagingVars

NextSync ==
    \/ Discover
    \/ SkipChild
    \/ ParentRecord
    \/ SyncChildren
    \/ ChildRecord
    \/ EndChild
    \/ EndChildren
    \/ EndStream
    \/ Finish

SpecSync == InitSync /\ [][NextSync]_vars

\* ------------------------------------------------------------------ claims
\* What the script says, read off the server alone.
IsPrefix(a, b) == Len(a) <= Len(b) /\ SubSeq(b, 1, Len(a)) = a

\* The rows of page p of the script, in payload order.
ScriptRows(p) ==
    IF p \in 1..Len(pages) THEN [i \in 1..pages[p].n |-> <<p, i>>] ELSE <<>>

\* The rows of the pages ps[1], ps[2], ..., in that order.
RECURSIVE RowsOfPages(_)
RowsOfPages(ps) ==
    IF ps = <<>> THEN <<>> ELSE ScriptRows(Head(ps)) \o RowsOfPages(Tail(ps))

\* The number of rows of page p of the script (none beyond its end).
pages_n(p) == IF p \in 1..Len(pages) THEN pages[p].n ELSE 0

\* Pages 1..k in order.
UpTo(k) == [i \in 1..k |-> i]

\* The token the driver computes after page i when it is requested in turn.
RECURSIVE TokenAfter(_)
TokenAfter(i) ==
    IF i = 0 THEN NoToken ELSE get_next_page_token(Respond(i), TokenAfter(i - 1))

\* Some attempt of the run failed (was retried, or raised).
Failed == retried \/ lastExc # "none"

\* The script is a sequence of pages whose computed tokens are strictly
\* increasing and end with the empty token.
IncreasingScript ==
    \A i \in 1..Len(pages) :
        IF i < Len(pages) THEN TokenAfter(i) > TokenAfter(i - 1)
        ELSE TokenAfter(i) = NoToken

\* C1: for a script of pages with strictly increasing tokens ending with the
\* empty token, and as long as no request fails, the rows emitted are the
\* rows of pages 1, 2, ... in request order and payload order, each once,
\* and the run reaches DONE with the rows of every page emitted.
C1_PagesInOrderThenDone ==
    IncreasingScript =>
        /\ [](~Failed => /\ requests = UpTo(Len(requests))
                         /\ IsPrefix(emitted, RowsOfPages(UpTo(Len(pages)))))
        /\ <>(Failed \/ /\ pc = "DONE"
                        /\ err = "none"
                        /\ emitted = RowsOfPages(UpTo(Len(pages))))

C1_Witness ==
    /\ IncreasingScript
    /\ ~Failed
    /\ pc = "DONE"
    /\ Len(requests) >= 2
    /\ Len(emitted) >= 2
    /\ emitted = RowsOfPages(UpTo(Len(pages)))

\* C2: after a connection-level failure the driver is back at the start of
\* the pagination sequence: it awaits the first page with the empty token.
C2_RestartsFromFirstPage ==
    lastExc = "ConnectionError" =>
        /\ pc = "AWAITING_NEXT_PAGE"
        /\ next_page_token = NoToken
        /\ RequestedPage = 1

\* C3: when the token computed after a page equals the token the page was
\* requested with and is not empty, that iteration raises the pagination-loop
\* error; after it no request is issued and no row is emitted.  An empty
\* computed token raises nothing and ends the run in DONE, also when the
\* page was requested with the empty token.
C3_LoopGuard ==
    /\ [][pc = "HAS_PAGE" =>
            /\ (next_page_token' # NoToken /\ next_page_token' = next_page_token)
                   => (pc' = "FATAL" /\ err' = "RuntimeError")
            /\ next_page_token' = NoToken => (pc' = "DONE" /\ err' = "none")
            /\ err' = "RuntimeError"
                   => (next_page_token' # NoToken /\ next_page_token' = next_page_token)]_vars
    /\ [][err = "RuntimeError" => (requests' = requests /\ emitted' = emitted)]_vars

C3_Witness ==
    /\ pc = "FATAL"
    /\ err = "RuntimeError"
    /\ next_page_token # NoToken
    /\ next_page_token = previous_token
    /\ Len(requests) = 2
    /\ Len(emitted) >= 1

\* C4: a page whose request keeps failing with a server-error status is
\* attempted at most 20 times; the 20th failure surfaces the error and ends
\* the run, and before the 20th the error is not surfaced.
C4_RetryCap ==
    /\ tries <= 20
    /\ lastStatus \in 500..599 =>
          /\ lastExc = "RetriableAPIError"
          /\ IF tries = 20 THEN pc = "FATAL" /\ err = "RetriableAPIError"
             ELSE pc = "BACKOFF" /\ err = "none"
    /\ err \in {"RetriableAPIError", "ReadTimeout"} => (pc = "FATAL" /\ tries = 20)

C4_Witness ==
    /\ pc = "FATAL"
    /\ err = "RetriableAPIError"
    /\ lastStatus = 503
    /\ tries = 20
    /\ Len(requests) = 2

RECURSIVE RefRun(_, _)
RefRun(token, k) ==
    LET p == IF stream = "boards" THEN BoardsPageParam(token) ELSE k
    IN IF p > MaxPages + 1 THEN <<>>
       ELSE LET r == Respond(p)
                nt == get_next_page_token(r, token)
            IN IF LoopDetected(nt, token) \/ Finished(nt) THEN Rows(r)
               ELSE Rows(r) \o RefRun(nt, k + 1)

RefEmitted == RefRun(NoToken, 1)

\* C6: retries are invisible: while no error has surfaced the rows emitted
\* are a prefix of the rows of the run without failures, and a run that
\* ends in DONE after any number of retried attempts has emitted exactly
\* those rows; a retried attempt leaves the token and the rows emitted
\* unchanged and asks for the same page.
C6_RetriesInvisible ==
    /\ []((pc \notin {"FATAL", "RESTART_DROPPED"}) => IsPrefix(emitted, RefEmitted))
    /\ [](pc = "DONE" => emitted = RefEmitted)
    /\ [][(pc = "BACKOFF" \/ pc' = "BACKOFF") =>
            /\ next_page_token' = next_page_token
            /\ emitted' = emitted
            /\ (pc = "BACKOFF" => requests' = requests)
            /\ (pc = "BACKOFF" /\ pc' = "HAS_PAGE" =>
                    resp'.idx = requests[Len(requests)])]_vars

C6_Witness ==
    /\ pc = "DONE"
    /\ retried
    /\ Len(requests) = 2
    /\ Len(emitted) >= 2
    /\ emitted = RefEmitted

\* C7: for Boards, processing a response with an empty page-list computes
\* the empty token and ends the run in DONE, whatever the previous token and
\* board_limit.
C7_EmptyPageEnds ==
    [][(stream = "boards" /\ pc = "HAS_PAGE" /\ resp.n = 0) =>
            (next_page_token' = NoToken /\ pc' = "DONE")]_vars

\* The request whose failure surfaced is the last one prepared.
RequestError == err \in {"FatalAPIError", "RetriableAPIError", "ReadTimeout"}

\* C8: when the request for page N ends the run with a fatal error, the
\* rows emitted are exactly the rows of the pages requested before it, in
\* order, each once, and nothing is emitted afterwards.
C8_NoSuppression ==
    /\ [](RequestError =>
            /\ pc = "FATAL"
            /\ emitted = RowsOfPages(SubSeq(requests, 1, Len(requests) - 1)))
    /\ [][RequestError => emitted' = emitted]_vars

C8_Witness ==
    /\ RequestError
    /\ pc = "FATAL"
    /\ Len(requests) = 2
    /\ Len(emitted) = 2

\* C9: for Boards with board_limit >= 1 the run eventually ends, in DONE or
\* with a fatal error.
C9_Terminates ==
    (stream = "boards" /\ board_limit >= 1) => <>(pc = "DONE" \/ pc = "FATAL")

\* C10: validate_response gives every status one classification: 408 is
\* retryable, every other status in 400-499 is fatal, every status in
\* 500-599 is retryable, and every status outside 400-599 raises nothing.
C10_Classification ==
    pc = "VALIDATED" =>
        /\ lastStatus = 408 => lastExc = "RetriableAPIError"
        /\ (lastStatus \in 400..499 /\ lastStatus # 408) => lastExc = "FatalAPIError"
        /\ lastStatus \in 500..599 => lastExc = "RetriableAPIError"
        /\ lastStatus \notin 400..599 => lastExc = "none"

C10_Witness ==
    /\ pc = "VALIDATED"
    /\ lastStatus = 408
    /\ lastExc = "RetriableAPIError"

\* C11: for Boards the token computed after the response to page p is p + 1
\* when the page holds exactly board_limit rows and empty otherwise, and the
\* pages requested in a run are 1, 2, ..., k in this order.
C11_BoardsTokens ==
    /\ [][(stream = "boards" /\ pc = "HAS_PAGE") =>
            /\ resp.idx = requests[Len(requests)]
            /\ next_page_token' =
                   (IF pages_n(resp.idx) = board_limit THEN resp.idx + 1 ELSE NoToken)]_vars
    /\ [](stream = "boards" => requests = UpTo(Len(requests)))

C11_Witness ==
    /\ stream = "boards"
    /\ board_limit = 2
    /\ requests = <<1, 2, 3>>
    /\ pc = "DONE"
    /\ retried

\* C15: the sync cost goes up by one GraphQL call, and by nothing else, for
\* every page fetched, and a failed attempt leaves it unchanged.
C15_GraphQLCost ==
    [][/\ pc = "HAS_PAGE" => costs' = [costs EXCEPT !.graphql = @ + 1]
       /\ pc # "HAS_PAGE" => costs' = costs]_vars

\* C17: the cap of 20 attempts is per page: every call of the decorated
\* request starts counting at its first attempt, and a run whose every page
\* fails 19 times in a row with retryable errors before it succeeds raises
\* nothing and reaches DONE with the rows of every page emitted.
C17_CapPerPage ==
    /\ [][pc = "AWAITING_NEXT_PAGE" => tries' = 1]_vars
    /\ IncreasingScript =>
          /\ [](err = "none" /\ tries <= 20)
          /\ [](pc = "HAS_PAGE" => tries = 20)
          /\ <>(/\ pc = "DONE"
                /\ requests = UpTo(Len(pages))
                /\ emitted = RowsOfPages(UpTo(Len(pages))))

C17_Witness ==
    /\ IncreasingScript
    /\ pc = "DONE"
    /\ retried
    /\ Len(requests) = 2
    /\ Len(emitted) >= 3
    /\ costs.rest = 2

\* C18: for Boards every non-empty token computed is strictly greater than
\* the token before it, so the pagination-loop error is never raised.
C18_NoBoardsLoop ==
    /\ [][(stream = "boards" /\ pc = "HAS_PAGE" /\ next_page_token' # NoToken) =>
            next_page_token' > next_page_token]_vars
    /\ [](stream = "boards" => err # "RuntimeError")

C18_Witness ==
    /\ stream = "boards"
    /\ previous_token = 2
    /\ next_page_token = 3
    /\ pc = "AWAITING_NEXT_PAGE"

\* The script is what a source of TotalBoards boards returns page by page:
\* every page but the last is full, and the last holds at most board_limit.
FaithfulSource ==
    /\ stream = "boards"
    /\ board_limit >= 1
    /\ \A i \in 1..Len(pages) :
          IF i < Len(pages) THEN pages[i].n = board_limit
          ELSE pages[i].n <= board_limit

RECURSIVE SumRows(_)
SumRows(k) == IF k = 0 THEN 0 ELSE pages[k].n + SumRows(k - 1)

TotalBoards == SumRows(Len(pages))

\* C19: for Boards with T boards, board_limit L >= 1 and no failed attempt,
\* a run never issues more than T \div L + 1 requests and ends after exactly
\* that many, the last one answered by an empty page when L divides T, with
\* each of the T boards emitted once.
C19_RequestCount ==
    (FaithfulSource /\ ~Failed) =>
        /\ Len(requests) <= (TotalBoards \div board_limit) + 1
        /\ pc = "DONE" =>
              /\ Len(requests) = (TotalBoards \div board_limit) + 1
              /\ (TotalBoards % board_limit = 0
                     => pages_n(requests[Len(requests)]) = 0)
              /\ Len(emitted) = TotalBoards
              /\ emitted = RowsOfPages(UpTo(Len(pages)))

C19_Witness ==
    /\ FaithfulSource
    /\ ~Failed
    /\ pc = "DONE"
    /\ board_limit = 2
    /\ TotalBoards = 4
    /\ Len(requests) = 3

\* 10 to the power k.
RECURSIVE Pow10(_)
Pow10(k) == IF k = 0 THEN 1 ELSE 10 * Pow10(k - 1)

\* The number a string of decimal digits denotes, read from its first digit.
RECURSIVE DecimalValue(_)
DecimalValue(s) ==
    IF s = <<>> THEN 0 ELSE Head(s) * Pow10(Len(s) - 1) + DecimalValue(Tail(s))

\* The sync is looking at the stream named s.
AtStream(s) == cur \in 1..Len(discovered) /\ discovered[cur] = s

\* The names of the discovered streams.
Catalog == {discovered[i] : i \in DOMAIN discovered}

\* C12: each child resource board_views, groups and columns is run exactly once
\* for every record of Boards, with a context whose board_id is the id of that
\* record, and the child runs of a board record are complete before the sync
\* goes on (to the next board record or the next resource).
C12_ChildrenOncePerBoard ==
    /\ (sync_pc = "CHILDREN") => AtStream("boards")
    /\ (sync_pc = "STREAM" /\ AtStream("boards") /\ n_rows >= 1) =>
          \A c \in {"board_views", "groups", "columns"} :
              Cardinality({i \in DOMAIN child_runs :
                              child_runs[i] = <<c, context.board_id>>}) = 1

\* C13: every record a child resource emits when it is invoked with context
\* {board_id: b} carries the field board_id with value b.
C13_ChildRecordsCarryBoardId ==
    (sync_pc = "CHILDREN" /\ crec # NoRow) =>
        /\ "board_id" \in DOMAIN crec
        /\ crec.board_id = context.board_id

\* C14: the Boards normalizer turns every row of data.boards into exactly one
\* record, in the order of the rows, whose id is the integer the row's id
\* string denotes, whose nested items have their id strings turned into the
\* integers they denote, and whose other fields are those of the row.
C14_BoardsNormalizer ==
    /\ [][(AtStream("boards") /\ raw' # raw /\ raw' # NoRow) =>
             (sync_pc' = "RECORD" /\ rec' # NoRow /\ n_rows' = n_rows + 1)]_vars
    /\ []((sync_pc = "RECORD" /\ AtStream("boards")) =>
             /\ DOMAIN rec = DOMAIN raw
             /\ rec.id = DecimalValue(raw.id)
             /\ rec.name = raw.name
             /\ DOMAIN rec.items = DOMAIN raw.items
             /\ \A j \in DOMAIN raw.items :
                   /\ DOMAIN rec.items[j] = DOMAIN raw.items[j]
                   /\ rec.items[j].id = DecimalValue(raw.items[j].id)
                   /\ rec.items[j].name = raw.items[j].name)

C14_Witness ==
    /\ sync_pc = "RECORD"
    /\ AtStream("boards")
    /\ n_rows = 2
    /\ raw.id = <<9, 0>>
    /\ rec.id = 90
    /\ Len(raw.items) = 1
    /\ raw.items[1].id = <<0, 9>>
    /\ rec.items[1].id = 9

\* C16: the catalog the sync enumerates matches the resource definitions that
\* exist: every entry of STREAM_TYPES is a defined stream, and every defined
\* stream (workspaces, boards, board_views, groups, columns) is an entry.
C16_CatalogMatchesDefined ==
    sync_pc # "START" =>
        /\ Catalog \subseteq (StreamClasses \cup {ItemsStream})
        /\ {"workspaces", "boards", "board_views", "groups", "columns"} \subseteq Catalog

====
